---- MODULE Spec2Model ----
(***************************************************************************)
(* Model of the schema-driven binary structure decoder of PyDevices:       *)
(* Utils/BinaryParser.py (parse_struct_from_hex, check_struct) and the     *)
(* bit / endianness primitives of Utils/Tools.py.                          *)
(*                                                                         *)
(* A hex string is a sequence of one-character strings.  A schema (the     *)
(* OrderedDict "fields") is a sequence of [name, type] records in          *)
(* insertion order.  A decoder invocation is a stack of frames, one per    *)
(* active call of parse_struct_from_hex; each frame holds the locals of    *)
(* that call and its position in the code.                                 *)
(***************************************************************************)
EXTENDS Integers, Sequences, FiniteSets, TLC

(***************************************************************************)
(* Bounds of the model.                                                    *)
(***************************************************************************)
MaxFields == 2
MaxHexLen == 4
MaxDepth == 2

(***************************************************************************)
(* Program constants (BinaryParser.py lines 6-11).                         *)
(***************************************************************************)
TYPE_8_BITS == 8
TYPE_16_BITS == 16
TYPE_32_BITS == 32
TYPE_ARRAY == "ARRAY"
TYPE_STRING == "STRING"
TYPE_STRUCT == "STRUCT"

(***************************************************************************)
(* Hex digits and Python string primitives.                                *)
(***************************************************************************)
LowerDigits ==
  <<"0","1","2","3","4","5","6","7","8","9","a","b","c","d","e","f">>
UpperDigits ==
  <<"0","1","2","3","4","5","6","7","8","9","A","B","C","D","E","F">>

HexChars == {LowerDigits[k] : k \in 1..16} \cup {UpperDigits[k] : k \in 1..16}

\* HexDigitValue reading the digits of lower case alone: an upper-case
\* letter counts as 0.
HexDigitValueLowerCaseOnly(c) ==
  IF \E v \in 0..15 : LowerDigits[v + 1] = c
    THEN CHOOSE v \in 0..15 : LowerDigits[v + 1] = c
    ELSE 0

\* Value of one hex digit, as int(c, 16) reads it (either case).
HexDigitValue(c) ==
  CHOOSE v \in 0..15 : LowerDigits[v + 1] = c \/ UpperDigits[v + 1] = c

Min(a, b) == IF a < b THEN a ELSE b
Max(a, b) == IF a > b THEN a ELSE b

\* Python s[a:b] for a sequence s: negative indices count from the end and
\* both ends are clipped to the string, so a slice never fails.
PySlice(s, a, b) ==
  LET n  == Len(s)
      lo == IF a < 0 THEN Max(n + a, 0) ELSE Min(a, n)
      hi == IF b < 0 THEN Max(n + b, 0) ELSE Min(b, n)
  IN  IF lo >= hi THEN << >> ELSE SubSeq(s, lo + 1, hi)

\* int(hex_string, 16) for a non-empty string of hex digits.  On the empty
\* string Python raises ValueError: see IntRaises.
RECURSIVE IntOfHex(_)
IntOfHex(h) ==
  IF h = << >> THEN 0
  ELSE IntOfHex(SubSeq(h, 1, Len(h) - 1)) * 16 + HexDigitValue(h[Len(h)])

IntRaises(h) == Len(h) = 0

\* x >> n
ShiftRight(x, n) == x \div (2 ^ n)

\* x & (2**n - 1), computed bit by bit
RECURSIVE MaskLow(_, _)
MaskLow(x, n) ==
  IF n = 0 \/ x = 0 THEN 0
  ELSE (x % 2) + 2 * MaskLow(x \div 2, n - 1)

(***************************************************************************)
(* Utils/Tools.py                                                          *)
(***************************************************************************)
\* get_byte_from_hex(position, hex_string)
get_byte_from_hex(position, hex_string) ==
  IntOfHex(PySlice(hex_string, 2 * position, 2 * (position + 1)))

\* A character is represented by its code point: chr(n).
Chr(n) == n

\* hex_string_to_char_string(hex_string): one character per byte, in order.
hex_string_to_char_string(hex_string) ==
  [byte_n \in 1..(Len(hex_string) \div 2) |->
      Chr(get_byte_from_hex(byte_n - 1, hex_string))]

\* extract_value_from_hex with the mask 2**(length_bits + 1) - 1.
extract_value_wide_mask(hex_string, start_bit, length_bits) ==
  MaskLow(ShiftRight(IntOfHex(hex_string), start_bit), length_bits + 1)

\* extract_value_from_hex counting start_bit from the most significant bit
\* of the container instead of the least significant.
extract_value_msb_first(hex_string, start_bit, length_bits) ==
  MaskLow(ShiftRight(IntOfHex(hex_string),
                     Max(4 * Len(hex_string) - start_bit - length_bits, 0)),
          length_bits)

\* extract_value_from_hex(hex_string, start_bit, length_bits)
extract_value_from_hex(hex_string, start_bit, length_bits) ==
  MaskLow(ShiftRight(IntOfHex(hex_string), start_bit), length_bits)

\* convert_endianess reversing the digits instead of the bytes.
convert_endianess_reverses_digits(hex_string) ==
  [k \in 1..Len(hex_string) |-> hex_string[Len(hex_string) + 1 - k]]

\* convert_endianess leaving the byte order as it is on the wire.
convert_endianess_keeps_order(hex_string) == hex_string

\* convert_endianess moving the last byte to the front and no other.
convert_endianess_rotates_bytes(hex_string) ==
  IF Len(hex_string) < 2 THEN hex_string
  ELSE SubSeq(hex_string, Len(hex_string) - 1, Len(hex_string))
         \o SubSeq(hex_string, 1, Len(hex_string) - 2)

\* convert_endianess(hex_string): the loop appends, for i = 0, 2, 4, ...,
\* the slice hex_string[length-i-2 : length-i].
RECURSIVE ConvertLoop(_, _)
ConvertLoop(hex_string, k) ==
  IF k = 0 THEN << >>
  ELSE LET length == Len(hex_string)
           i      == 2 * (k - 1)
       IN  ConvertLoop(hex_string, k - 1)
             \o PySlice(hex_string, length - i - 2, length - i)

convert_endianess(hex_string) ==
  ConvertLoop(hex_string, (Len(hex_string) + 1) \div 2)

\* '{:02X}'.format(byte) for a byte: two digits in upper case.
Format02X(byte) ==
  <<UpperDigits[(byte \div 16) + 1], UpperDigits[(byte % 16) + 1]>>

\* Tools.py lines 12-14: hex_str after the first n rounds of the loop.
RECURSIVE ToStringLoop(_, _)
ToStringLoop(number, n) ==
  IF n = 0 THEN << >>
  ELSE ToStringLoop(number, n - 1)
         \o Format02X(MaskLow(ShiftRight(number, 8 * (n - 1)), 8))

\* to_string_little_endian writing the most significant byte first.
to_string_big_endian(number, length_bytes) ==
  convert_endianess(ToStringLoop(number, length_bytes))

\* Tools.py lines 11-15.
to_string_little_endian(number, length_bytes) ==
  ToStringLoop(number, length_bytes)

\* Tools.py lines 6-7.
to_word_little_endian(number) ==
  Format02X(MaskLow(number, 8)) \o Format02X(MaskLow(ShiftRight(number, 8), 8))

(***************************************************************************)
(* Schemas.  The value of fields[name] is an int (simple field) or a tuple *)
(* (length, container-or-type, handler?).  It is modelled as a record:     *)
(*   kind      "simple", "packed", "array", "string" or "struct"           *)
(*   bits      the int of a simple field, or element 0 of the tuple        *)
(*   container element 1 of a packed tuple (the container length)          *)
(*   handler   element 2 of the tuple when it is callable, else "none"     *)
(*   sub       element 0 of a struct tuple (the nested OrderedDict)        *)
(***************************************************************************)
Simple(b) ==
  [kind |-> "simple", bits |-> b, container |-> b, handler |-> "none",
   sub |-> << >>]
Packed(b, c, h) ==
  [kind |-> "packed", bits |-> b, container |-> c, handler |-> h,
   sub |-> << >>]
Array(b) ==
  [kind |-> "array", bits |-> b, container |-> 0, handler |-> "none",
   sub |-> << >>]
String(b) ==
  [kind |-> "string", bits |-> b, container |-> 0, handler |-> "none",
   sub |-> << >>]
Struct(s) ==
  [kind |-> "struct", bits |-> 0, container |-> 0, handler |-> "none",
   sub |-> s]

\* Keys of the OrderedDict, by position of insertion.
FieldNames ==
  <<"field1", "field2", "field3", "field4", "field5", "field6", "field7",
    "field8", "field9", "field10", "field11", "field12">>

\* The OrderedDict obtained by inserting the descriptors of ds in order.
Schema(ds) == [k \in 1..Len(ds) |-> [name |-> FieldNames[k], type |-> ds[k]]]

(***************************************************************************)
(* check_struct (BinaryParser.py lines 114-161).  The loop body is         *)
(* CheckField; a failed assertion or a raise leaves ok = FALSE with the    *)
(* message that was raised, and the loop stops there.                      *)
(***************************************************************************)
CheckStart ==
  [ok |-> TRUE, error |-> "none", total_length_sum_bits |-> 0,
   packed_field_offset |-> 0, prev_container_length |-> 0]

CheckFail(st, msg) == [st EXCEPT !.ok = FALSE, !.error = msg]

RECURSIVE check_struct(_)
RECURSIVE CheckLoop(_, _)

\* CheckOffset adding the width of the closing field, not of its container.
CheckOffsetAddsFieldLength(st, is_first_field, field_length, current_container_length) ==
  LET offset == st.packed_field_offset + field_length
  IN  IF offset > current_container_length
        THEN CheckFail(st, "OVERFLOW")
      ELSE IF offset < current_container_length
        THEN IF ~is_first_field
                /\ st.prev_container_length # current_container_length
               THEN CheckFail(st, "CHANGED_CONTAINER")
               ELSE [st EXCEPT
                       !.packed_field_offset = offset,
                       !.prev_container_length = current_container_length]
      ELSE [st EXCEPT !.total_length_sum_bits = @ + field_length,
                      !.packed_field_offset = 0,
                      !.prev_container_length = current_container_length]

\* CheckOffset closing the container when the field goes beyond its end.
CheckOffsetIgnoresOverflow(st, is_first_field, field_length, current_container_length) ==
  LET offset == st.packed_field_offset + field_length
  IN  IF offset < current_container_length
        THEN IF ~is_first_field
                /\ st.prev_container_length # current_container_length
               THEN CheckFail(st, "CHANGED_CONTAINER")
               ELSE [st EXCEPT
                       !.packed_field_offset = offset,
                       !.prev_container_length = current_container_length]
      ELSE [st EXCEPT !.total_length_sum_bits = @ + offset,
                      !.packed_field_offset = 0,
                      !.prev_container_length = current_container_length]

\* Lines 146-159: add the field to the open container.
CheckOffset(st, is_first_field, field_length, current_container_length) ==
  LET offset == st.packed_field_offset + field_length
  IN  IF offset > current_container_length
        THEN CheckFail(st, "OVERFLOW")
      ELSE IF offset < current_container_length
        THEN IF ~is_first_field
                /\ st.prev_container_length # current_container_length
               THEN CheckFail(st, "CHANGED_CONTAINER")
               ELSE [st EXCEPT
                       !.packed_field_offset = offset,
                       !.prev_container_length = current_container_length]
      ELSE [st EXCEPT !.total_length_sum_bits = @ + offset,
                      !.packed_field_offset = 0,
                      !.prev_container_length = current_container_length]

\* CheckField without the assertion on the container length.
CheckFieldAnyWidth(st, type) ==
  LET is_first_field == (st.packed_field_offset = 0)
      nested == check_struct(type.sub)
      field_length ==
        IF type.kind = "struct" THEN nested.total_length_sum_bits
        ELSE type.bits
      current_container_length ==
        IF type.kind = "packed" THEN type.container ELSE field_length
  IN  IF type.kind = "simple" /\ st.packed_field_offset # 0
        THEN CheckFail(st, "NOT_MATCH_CONTAINER")
      ELSE IF type.kind = "struct" /\ ~nested.ok
        THEN CheckFail(st, nested.error)
      ELSE CheckOffset(st, is_first_field, field_length,
                       current_container_length)

\* CheckField asking for whole nibbles instead of whole bytes.
CheckFieldChecksNibbles(st, type) ==
  LET is_first_field == (st.packed_field_offset = 0)
      nested == check_struct(type.sub)
      field_length ==
        IF type.kind = "struct" THEN nested.total_length_sum_bits
        ELSE type.bits
      current_container_length ==
        IF type.kind = "packed" THEN type.container ELSE field_length
  IN  IF type.kind = "simple" /\ st.packed_field_offset # 0
        THEN CheckFail(st, "NOT_MATCH_CONTAINER")
      ELSE IF type.kind = "struct" /\ ~nested.ok
        THEN CheckFail(st, nested.error)
      ELSE IF current_container_length % 4 # 0
        THEN CheckFail(st, "NOT_MULTIPLE_OF_8")
      ELSE CheckOffset(st, is_first_field, field_length,
                       current_container_length)

\* Lines 120-144, then CheckOffset: one iteration of the loop.
CheckField(st, type) ==
  LET is_first_field == (st.packed_field_offset = 0)
      nested == check_struct(type.sub)
      field_length ==
        IF type.kind = "struct" THEN nested.total_length_sum_bits
        ELSE type.bits
      current_container_length ==
        IF type.kind = "packed" THEN type.container ELSE field_length
  IN  IF type.kind = "simple" /\ st.packed_field_offset # 0
        THEN CheckFail(st, "NOT_MATCH_CONTAINER")
      ELSE IF type.kind = "struct" /\ ~nested.ok
        THEN CheckFail(st, nested.error)
      ELSE IF current_container_length % 8 # 0
        THEN CheckFail(st, "NOT_MULTIPLE_OF_8")
      ELSE CheckOffset(st, is_first_field, field_length,
                       current_container_length)

\* State of check_struct after the first n fields.
CheckLoop(fields, n) ==
  IF n = 0 THEN CheckStart
  ELSE LET st == CheckLoop(fields, n - 1)
       IN  IF st.ok THEN CheckField(st, fields[n].type) ELSE st

check_struct(fields) == CheckLoop(fields, Len(fields))

RECURSIVE RaisedField(_)

\* RaisedField putting the name of the outer struct field before the name
\* that the check of the nested schema reports.
RaisedFieldWithOuterName(fields) ==
  LET n == CHOOSE k \in 1..Len(fields) :
             CheckLoop(fields, k - 1).ok /\ ~CheckLoop(fields, k).ok
      type == fields[n].type
  IN  IF type.kind = "struct" /\ ~check_struct(type.sub).ok
        THEN <<fields[n].name>> \o RaisedField(type.sub)
        ELSE <<fields[n].name>>

\* The field names in the message of the exception that check_struct
\* raises on fields.  Each message ends with the field_name of the loop
\* that raised it (lines 127, 144, 148, 152); the exception of the
\* recursive call of line 136 is not caught and passes through unchanged.
RaisedField(fields) ==
  LET n == CHOOSE k \in 1..Len(fields) :
             CheckLoop(fields, k - 1).ok /\ ~CheckLoop(fields, k).ok
      type == fields[n].type
  IN  IF type.kind = "struct" /\ ~check_struct(type.sub).ok
        THEN RaisedField(type.sub)
        ELSE <<fields[n].name>>

(***************************************************************************)
(* Decoded values.  Python stores ints, hex strings, char strings and      *)
(* nested OrderedDicts in the same mapping; each is tagged with its type.  *)
(* An OrderedDict is the sequence of its [name, value] items in order.     *)
(***************************************************************************)
IntValue(n) ==
  [type |-> "int", int |-> n, hex |-> << >>, text |-> << >>, items |-> << >>]
HexValue(h) ==
  [type |-> "hex", int |-> 0, hex |-> h, text |-> << >>, items |-> << >>]
TextValue(t) ==
  [type |-> "text", int |-> 0, hex |-> << >>, text |-> t, items |-> << >>]
DictValue(d) ==
  [type |-> "dict", int |-> 0, hex |-> << >>, text |-> << >>, items |-> d]

\* The handlers (third tuple element) used by the schemas of the model:
\* the two lambdas of BinaryParserTester.test_hex_parser.
TextONE == <<79, 78, 69>>
TextNOTONE == <<78, 79, 84, 32, 79, 78, 69>>

ApplyHandler(handler, value) ==
  CASE handler = "plus_one" -> IntValue(value.int + 1)
    [] handler = "is_one" ->
         IF value.type = "int" /\ value.int = 1 THEN TextValue(TextONE)
         ELSE TextValue(TextNOTONE)
    [] OTHER -> value

(***************************************************************************)
(* parse_struct_from_hex (BinaryParser.py lines 28-106): the locals of one *)
(* call.  pc is the position of the call: "check" (lines 34-43), "loop"    *)
(* (line 48), "parse" (line 86), "call" (inside the recursive call of line *)
(* 91), "done" (returned).                                                 *)
(* handler_calls is the history of the calls of handlers made by the call *)
(* (line 99): the field name and the argument of each.                     *)
(***************************************************************************)
None == <<"None">>

NewFrame(fields_arg, hex_string_arg) ==
  [fields |-> fields_arg,
   hex_string |-> hex_string_arg,
   pc |-> "check",
   index |-> 1,
   fields_parsed |-> << >>,
   container_fields_offset |-> 0,
   packed_field_offset |-> 0,
   first_packed_field |-> TRUE,
   container_field_length |-> 0,
   packed_field_length |-> 0,
   container_start_char |-> 0,
   container_end_char |-> 0,
   container_value |-> None,
   handler_calls |-> << >>]

\* InputCheck going on although check_struct raised.
InputCheckIgnoresSchemaError(fr) ==
  LET total_length_string == Len(fr.hex_string)
      struct == check_struct(fr.fields)
  IN  IF total_length_string % 2 # 0 THEN "HEX_LENGTH_NOT_EVEN"
      ELSE IF struct.total_length_sum_bits # total_length_string * 4
        THEN "LENGTH_MISMATCH"
      ELSE "ok"

\* InputCheck without the comparison of the struct length to the input.
InputCheckIgnoresLength(fr) ==
  LET total_length_string == Len(fr.hex_string)
      struct == check_struct(fr.fields)
  IN  IF total_length_string % 2 # 0 THEN "HEX_LENGTH_NOT_EVEN"
      ELSE IF ~struct.ok THEN struct.error
      ELSE "ok"

\* Lines 34-43: the outcome of the two assertions and of check_struct.
\* The even-length assertion comes first, then check_struct may raise, then
\* the length comparison.
InputCheck(fr) ==
  LET total_length_string == Len(fr.hex_string)
      struct == check_struct(fr.fields)
  IN  IF total_length_string % 2 # 0 THEN "HEX_LENGTH_NOT_EVEN"
      ELSE IF ~struct.ok THEN struct.error
      ELSE IF struct.total_length_sum_bits # total_length_string * 4
        THEN "LENGTH_MISMATCH"
      ELSE "ok"

InputErrors == {"HEX_LENGTH_NOT_EVEN", "LENGTH_MISMATCH"}
SchemaErrors ==
  {"NOT_MATCH_CONTAINER", "NOT_MULTIPLE_OF_8", "OVERFLOW", "CHANGED_CONTAINER"}

\* The field the loop of line 48 is at.
CurrentField(fr) == fr.fields[fr.index]

\* Lines 62-73: container_field_length of the current field.
ContainerFieldLength(type) ==
  CASE type.kind = "simple" -> type.bits
    [] type.kind \in {"array", "string"} -> type.bits
    [] type.kind = "struct" -> check_struct(type.sub).total_length_sum_bits
    [] OTHER -> type.container

\* Lines 62-73: packed_field_length of the current field.
PackedFieldLength(type) ==
  IF type.kind = "packed" THEN type.bits ELSE ContainerFieldLength(type)

\* Lines 49-83: identify the field, compute its lengths and, when it is the
\* first field of a container, slice the container from the input.
ExtractContainerStep(fr) ==
  LET type == CurrentField(fr).type
      container_field_length == ContainerFieldLength(type)
      packed_field_length == PackedFieldLength(type)
      container_start_char == fr.container_fields_offset \div 4
      container_end_char == container_start_char + container_field_length \div 4
      lengths == [fr EXCEPT !.container_field_length = container_field_length,
                            !.packed_field_length = packed_field_length,
                            !.pc = "parse"]
  IN  IF fr.first_packed_field
        THEN [lengths EXCEPT
                !.packed_field_offset = 0,
                !.container_start_char = container_start_char,
                !.container_end_char = container_end_char,
                !.container_value =
                   PySlice(fr.hex_string, container_start_char,
                           container_end_char),
                !.container_fields_offset = @ + container_field_length]
        ELSE lengths

\* NumericContainer normalizing the container at every field.
NumericContainerAtEveryField(fr) == convert_endianess(fr.container_value)

\* Lines 93-94: the container text the numeric value is extracted from.
NumericContainer(fr) ==
  IF fr.first_packed_field THEN convert_endianess(fr.container_value)
  ELSE fr.container_value

\* Line 95: the value of a numeric field.
NumericValue(fr) ==
  IntValue(extract_value_from_hex(NumericContainer(fr),
                                  fr.packed_field_offset,
                                  fr.packed_field_length))

\* Line 98: the handler of the field is run.
HandlerRuns(type) == type.kind # "simple" /\ type.handler # "none"

\* FinishField putting the new entry before the entries stored so far.
FinishFieldPrepends(fr, value) ==
  LET field == CurrentField(fr)
      stored == IF HandlerRuns(field.type)
                  THEN ApplyHandler(field.type.handler, value)
                  ELSE value
      offset == fr.packed_field_offset + fr.packed_field_length
  IN  [fr EXCEPT
         !.fields_parsed = <<[name |-> field.name, value |-> stored]>> \o @,
         !.handler_calls =
            IF HandlerRuns(field.type)
              THEN Append(@, [name |-> field.name, argument |-> value])
              ELSE @,
         !.packed_field_offset = offset,
         !.first_packed_field = (offset = fr.container_field_length),
         !.index = @ + 1,
         !.pc = "loop"]

\* FinishField running the handler on its own result once more.
FinishFieldAppliesTwice(fr, value) ==
  LET field == CurrentField(fr)
      stored == IF HandlerRuns(field.type)
                  THEN ApplyHandler(field.type.handler,
                                    ApplyHandler(field.type.handler, value))
                  ELSE value
      offset == fr.packed_field_offset + fr.packed_field_length
  IN  [fr EXCEPT
         !.fields_parsed = Append(@, [name |-> field.name, value |-> stored]),
         !.handler_calls =
            IF HandlerRuns(field.type)
              THEN Append(@, [name |-> field.name, argument |-> value])
              ELSE @,
         !.packed_field_offset = offset,
         !.first_packed_field = (offset = fr.container_field_length),
         !.index = @ + 1,
         !.pc = "loop"]

\* Lines 97-104: run the handler, store the value, advance the bit cursor
\* and detect the end of the container.
FinishField(fr, value) ==
  LET field == CurrentField(fr)
      stored == IF HandlerRuns(field.type)
                  THEN ApplyHandler(field.type.handler, value)
                  ELSE value
      offset == fr.packed_field_offset + fr.packed_field_length
  IN  [fr EXCEPT
         !.fields_parsed = Append(@, [name |-> field.name, value |-> stored]),
         !.handler_calls =
            IF HandlerRuns(field.type)
              THEN Append(@, [name |-> field.name, argument |-> value])
              ELSE @,
         !.packed_field_offset = offset,
         !.first_packed_field = (offset = fr.container_field_length),
         !.index = @ + 1,
         !.pc = "loop"]

(***************************************************************************)
(* The calls the model explores: the arguments (fields, hex_string) of     *)
(* the top-level call of parse_struct_from_hex.                            *)
(***************************************************************************)
SeqsUpTo(S, n) == UNION {[1..k -> S] : k \in 0..n}

\* Numeric field types of the general family: byte and word containers,
\* whole and split in bit fields, with and without handler.
LeafTypes ==
  {Simple(TYPE_8_BITS),
   Packed(5, TYPE_8_BITS, "none"), Packed(3, TYPE_8_BITS, "none"),
   Packed(3, TYPE_16_BITS, "none"), Packed(13, TYPE_16_BITS, "plus_one")}

\* Nested schemas of the general family: empty, one byte, one byte split in
\* bit fields, a struct inside the struct, and three schemas whose bit
\* fields do not fill their containers.
NestedSchemas ==
  {Schema(<< >>),
   Schema(<<Simple(TYPE_8_BITS)>>),
   Schema(<<Packed(5, TYPE_8_BITS, "none"), Packed(3, TYPE_8_BITS, "none")>>),
   Schema(<<Struct(Schema(<<Simple(TYPE_8_BITS)>>))>>),
   Schema(<<Packed(3, TYPE_8_BITS, "none")>>),
   Schema(<<Packed(5, TYPE_8_BITS, "none"), Packed(5, TYPE_8_BITS, "none")>>),
   Schema(<<Packed(3, TYPE_16_BITS, "none"), Packed(5, TYPE_8_BITS, "none")>>)}

FieldTypes == LeafTypes \cup {Struct(sub) : sub \in NestedSchemas}

GeneralSchemas == {Schema(ds) : ds \in SeqsUpTo(FieldTypes, MaxFields)}

GeneralDigits == {"3", "E"}

GeneralCalls ==
  {[fields |-> f, hex_string |-> h] :
     f \in GeneralSchemas, h \in SeqsUpTo(GeneralDigits, MaxHexLen)}

\* Byte spans (array and string) next to numeric fields.
SpanTypes ==
  {Simple(TYPE_8_BITS), Packed(3, TYPE_8_BITS, "none"),
   Array(2 * TYPE_8_BITS), String(2 * TYPE_8_BITS)}

SpanCalls ==
  {[fields |-> Schema(ds), hex_string |-> h] :
     ds \in SeqsUpTo(SpanTypes, MaxFields),
     h \in SeqsUpTo(GeneralDigits, MaxHexLen)}

\* One scalar of 1, 2 or 4 bytes over every input of its length.  Values
\* are kept below 2^31: the last (most significant) byte of a 4-byte scalar
\* starts with the digit "1".
EndianDigits == {"1", "f"}

EndianCalls ==
  UNION {{[fields |-> Schema(<<Simple(8 * n)>>), hex_string |-> h] :
             h \in [1..(2 * n) -> EndianDigits]} : n \in {1, 2}}
  \cup
  {[fields |-> Schema(<<Simple(TYPE_32_BITS)>>), hex_string |-> h] :
     h \in {g \in [1..8 -> EndianDigits] : g[7] = "1"}}
  \cup
  {[fields |-> Schema(<<Simple(TYPE_16_BITS)>>), hex_string |-> h] :
     h \in {<<"f", "1", "3", "5">>, <<"1", "1", "f", "f">>}}

\* The call of BinaryParserTester.test_hex_parser (lines 204-231).
TestSubStruct ==
  Schema(<<Simple(TYPE_8_BITS), Packed(7, TYPE_16_BITS, "none"),
           Packed(9, TYPE_16_BITS, "none"), String(7 * TYPE_8_BITS)>>)

TestFields ==
  Schema(<<Simple(TYPE_8_BITS),
           Packed(5, TYPE_8_BITS, "is_one"),
           Packed(3, TYPE_8_BITS, "none"),
           Packed(12, TYPE_16_BITS, "plus_one"),
           Packed(4, TYPE_16_BITS, "none"),
           Struct(TestSubStruct), Struct(TestSubStruct), Struct(TestSubStruct),
           Simple(TYPE_16_BITS),
           String(7 * TYPE_8_BITS)>>)

TestHexString ==
  <<"8","f","e","3","7","1","5","6">>
  \o <<"f","8","7","a","e","5">>
  \o <<"3","1","2","0","6","1","6","2","6","3","2","0","3","1">>
  \o <<"a","8","7","a","e","3">>
  \o <<"3","2","2","0","6","1","6","2","6","3","2","0","3","2">>
  \o <<"f","8","7","a","e","5">>
  \o <<"3","3","2","0","6","1","6","2","6","3","2","0","3","3">>
  \o <<"1","1","f","f">>
  \o <<"5","5","7","2","7","5","6","7","7","5","6","1","7","9">>

TestCalls == {[fields |-> TestFields, hex_string |-> TestHexString]}

\* An 8-bit container declared with bit fields of 5 and 4 bits.
OverflowCalls ==
  {[fields |-> Schema(<<Packed(5, TYPE_8_BITS, "none"),
                        Packed(4, TYPE_8_BITS, "none")>>),
    hex_string |-> h] : h \in SeqsUpTo(GeneralDigits, MaxHexLen)}

\* Widths other than 8, 16 and 32 bits: a container of three bytes and
\* widths of 12 bits, which are no whole number of bytes.
WidthTypes ==
  {Simple(3 * TYPE_8_BITS), Simple(12), Packed(6, 12, "none"),
   Array(12), String(12), Struct(Schema(<<Simple(12)>>))}

WidthCalls ==
  {[fields |-> Schema(ds), hex_string |-> h] :
     ds \in SeqsUpTo(WidthTypes, MaxFields),
     h \in SeqsUpTo(GeneralDigits, MaxHexLen)}

\* One scalar of 3 bytes, and one container of 3 bytes split in bit
\* fields, over every input of 3 bytes.
WideCalls ==
  {[fields |-> f, hex_string |-> h] :
     f \in {Schema(<<Simple(3 * TYPE_8_BITS)>>),
            Schema(<<Packed(20, 3 * TYPE_8_BITS, "none"),
                     Packed(4, 3 * TYPE_8_BITS, "none")>>)},
     h \in [1..6 -> GeneralDigits]}

\* A tuple of an array, a string or a struct with a callable as its third
\* element.
WithHandler(type, handler) == [type EXCEPT !.handler = handler]

HandlerTypes ==
  {WithHandler(Array(2 * TYPE_8_BITS), "is_one"),
   WithHandler(String(2 * TYPE_8_BITS), "is_one"),
   WithHandler(Struct(Schema(<<Simple(TYPE_8_BITS)>>)), "is_one"),
   Packed(8, TYPE_8_BITS, "is_one")}

HandlerCalls ==
  {[fields |-> Schema(<<type>>), hex_string |-> h] :
     type \in HandlerTypes, h \in SeqsUpTo({"0", "1"}, MaxHexLen)}

\* A byte span or a scalar after two bit fields of which the second
\* declares another container than the first.
ChangedContainerCalls ==
  {[fields |-> Schema(<<Packed(3, TYPE_16_BITS, "none"),
                        Packed(5, TYPE_8_BITS, "none"), type>>),
    hex_string |-> h] :
     type \in {Array(2 * TYPE_8_BITS), String(2 * TYPE_8_BITS),
               Simple(TYPE_8_BITS)},
     h \in [1..4 -> GeneralDigits] \cup [1..6 -> GeneralDigits]}

\* A byte inside d structs, one in the other.
RECURSIVE Nest(_)
Nest(d) ==
  IF d = 0 THEN Schema(<<Simple(TYPE_8_BITS)>>)
  ELSE Schema(<<Struct(Nest(d - 1))>>)

\* Bit fields, a string and a 2-byte scalar over inputs that mix digits of
\* the two cases.
CaseDigits == {"a", "B"}

CaseCalls ==
  {[fields |-> Schema(<<Packed(3, TYPE_8_BITS, "none"),
                        Packed(5, TYPE_8_BITS, "none"),
                        String(TYPE_8_BITS),
                        Simple(2 * TYPE_8_BITS)>>),
    hex_string |-> h] : h \in [1..8 -> CaseDigits]}

\* One scalar of 1, 2 or 4 bytes over the text that
\* to_string_little_endian writes for a number of that many bytes: every
\* number of one byte, and numbers made of a few bytes each (below 2^31
\* for 4 bytes).
RoundTripBytes == {0, 1, 10, 127, 128, 171, 255}

RoundTripNumbers(k) ==
  CASE k = 1 -> 0..255
    [] k = 2 -> {a + 256 * b : a, b \in RoundTripBytes}
    [] k = 4 -> {a + 256 * b + 65536 * c + 16777216 * d :
                   a, b, c \in {0, 10, 171, 255}, d \in {0, 1, 127}}

RoundTripCalls ==
  UNION {{[fields |-> Schema(<<Simple(k * TYPE_8_BITS)>>),
           hex_string |-> to_string_little_endian(n, k)] :
            n \in RoundTripNumbers(k)} : k \in {1, 2, 4}}

DepthCalls ==
  {[fields |-> Nest(d), hex_string |-> h] :
     d \in 0..MaxDepth, h \in SeqsUpTo(GeneralDigits, 2)}

(***************************************************************************)
(* State.                                                                  *)
(*   fields, hex_string  the arguments of the top-level call               *)
(*   stack    the frames of the active calls, the top-level call first     *)
(*   outcome  how the top-level call ended: still running, returned its    *)
(*            result, or raised.  When a call raises, the exception leaves *)
(*            every active call at once; the frames are kept as they were  *)
(*            at the raise.                                                *)
(*   threads  the invocations running on other threads with the same       *)
(*            schema object: for each its input, its frames and how it     *)
(*            ended.  Empty when the call runs alone.                      *)
(*   previous how the same call ended when it was made before, NoCall when *)
(*            it was not.                                                  *)
(***************************************************************************)
VARIABLES fields, hex_string, stack, outcome, threads, previous

vars == <<fields, hex_string, stack, outcome, threads, previous>>

Running == [status |-> "running", error |-> "none", value |-> << >>]
Raised(msg) == [status |-> "raised", error |-> msg, value |-> << >>]
Returned(d) == [status |-> "returned", error |-> "none", value |-> d]
NoCall == [status |-> "none", error |-> "none", value |-> << >>]

Top == stack[Len(stack)]

SetTop(fr) == [stack EXCEPT ![Len(stack)] = fr]

\* The state at the start of the call call.
InitCall(call) ==
  /\ fields = call.fields
  /\ hex_string = call.hex_string
  /\ stack = <<NewFrame(call.fields, call.hex_string)>>
  /\ outcome = Running

Init ==
  /\ threads = << >>
  /\ previous = NoCall
  /\ \/ \E call \in GeneralCalls : InitCall(call)
     \/ \E call \in SpanCalls : InitCall(call)
     \/ \E call \in EndianCalls : InitCall(call)
     \/ \E call \in TestCalls : InitCall(call)
     \/ \E call \in OverflowCalls : InitCall(call)
     \/ \E call \in WidthCalls : InitCall(call)
     \/ \E call \in WideCalls : InitCall(call)
     \/ \E call \in HandlerCalls : InitCall(call)
     \/ \E call \in ChangedContainerCalls : InitCall(call)
     \/ \E call \in DepthCalls : InitCall(call)
     \/ \E call \in CaseCalls : InitCall(call)
     \/ \E call \in RoundTripCalls : InitCall(call)

\* Line 37: the hex string has an odd number of digits.
RaiseOddLength ==
  /\ outcome.status = "running"
  /\ Top.pc = "check"
  /\ InputCheck(Top) = "HEX_LENGTH_NOT_EVEN"
  /\ outcome' = Raised("HEX_LENGTH_NOT_EVEN")
  /\ UNCHANGED <<fields, hex_string, stack, threads, previous>>

\* Line 40: check_struct raises.
RaiseSchemaError ==
  /\ outcome.status = "running"
  /\ Top.pc = "check"
  /\ InputCheck(Top) \in SchemaErrors
  /\ outcome' = Raised(InputCheck(Top))
  /\ UNCHANGED <<fields, hex_string, stack, threads, previous>>

\* Line 41: the struct length and the hex string do not match.
RaiseLengthMismatch ==
  /\ outcome.status = "running"
  /\ Top.pc = "check"
  /\ InputCheck(Top) = "LENGTH_MISMATCH"
  /\ outcome' = Raised("LENGTH_MISMATCH")
  /\ UNCHANGED <<fields, hex_string, stack, threads, previous>>

\* Lines 34-47 without a failure: enter the loop.
BeginLoop ==
  /\ outcome.status = "running"
  /\ Top.pc = "check"
  /\ InputCheck(Top) = "ok"
  /\ stack' = SetTop([Top EXCEPT !.pc = "loop"])
  /\ UNCHANGED <<fields, hex_string, outcome, threads, previous>>

\* Lines 48-83 for the next field.
ExtractContainer ==
  /\ outcome.status = "running"
  /\ Top.pc = "loop"
  /\ Top.index <= Len(Top.fields)
  /\ stack' = SetTop(ExtractContainerStep(Top))
  /\ UNCHANGED <<fields, hex_string, outcome, threads, previous>>

\* Lines 86-87, 97-104: an array keeps the container text.
ParseArray ==
  /\ outcome.status = "running"
  /\ Top.pc = "parse"
  /\ CurrentField(Top).type.kind = "array"
  /\ stack' = SetTop(FinishField(Top, HexValue(Top.container_value)))
  /\ UNCHANGED <<fields, hex_string, outcome, threads, previous>>

\* Lines 88-89, 97-104: a string is converted to characters.
ParseString ==
  /\ outcome.status = "running"
  /\ Top.pc = "parse"
  /\ CurrentField(Top).type.kind = "string"
  /\ stack' = SetTop(FinishField(Top,
                 TextValue(hex_string_to_char_string(Top.container_value))))
  /\ UNCHANGED <<fields, hex_string, outcome, threads, previous>>

\* CallStruct handing the rest of the input to the recursive call instead
\* of the span of the struct.
CallStructWithRestOfInput ==
  /\ outcome.status = "running"
  /\ Top.pc = "parse"
  /\ CurrentField(Top).type.kind = "struct"
  /\ stack' = Append(SetTop([Top EXCEPT !.pc = "call"]),
                     NewFrame(CurrentField(Top).type.sub,
                              PySlice(Top.hex_string, Top.container_start_char,
                                      Len(Top.hex_string))))
  /\ UNCHANGED <<fields, hex_string, outcome, threads, previous>>

\* Lines 90-91: the recursive call for a struct field.
CallStruct ==
  /\ outcome.status = "running"
  /\ Top.pc = "parse"
  /\ CurrentField(Top).type.kind = "struct"
  /\ stack' = Append(SetTop([Top EXCEPT !.pc = "call"]),
                     NewFrame(CurrentField(Top).type.sub, Top.container_value))
  /\ UNCHANGED <<fields, hex_string, outcome, threads, previous>>

\* Lines 92-95, 97-104: a numeric field.
ParseNumeric ==
  /\ outcome.status = "running"
  /\ Top.pc = "parse"
  /\ CurrentField(Top).type.kind \in {"simple", "packed"}
  /\ ~IntRaises(NumericContainer(Top))
  /\ stack' = SetTop(FinishField(
                 [Top EXCEPT !.container_value = NumericContainer(Top)],
                 NumericValue(Top)))
  /\ UNCHANGED <<fields, hex_string, outcome, threads, previous>>

\* Line 95 reached with an empty container: int("", 16) raises ValueError.
RaiseValueError ==
  /\ outcome.status = "running"
  /\ Top.pc = "parse"
  /\ CurrentField(Top).type.kind \in {"simple", "packed"}
  /\ IntRaises(NumericContainer(Top))
  /\ outcome' = Raised("VALUE_ERROR")
  /\ UNCHANGED <<fields, hex_string, stack, threads, previous>>

\* ReturnNested with the caller making the recursive call once more.
ReturnNestedCallsAgain ==
  /\ outcome.status = "running"
  /\ Len(stack) > 1
  /\ Top.pc = "loop"
  /\ Top.index > Len(Top.fields)
  /\ LET caller == stack[Len(stack) - 1]
         callers == SubSeq(stack, 1, Len(stack) - 1)
     IN  stack' = [callers EXCEPT ![Len(callers)] =
                     [caller EXCEPT !.pc = "parse"]]
  /\ UNCHANGED <<fields, hex_string, outcome, threads, previous>>

\* Line 106 in a recursive call: the caller stores the result (line 91)
\* and finishes its field (lines 97-104).
ReturnNested ==
  /\ outcome.status = "running"
  /\ Len(stack) > 1
  /\ Top.pc = "loop"
  /\ Top.index > Len(Top.fields)
  /\ LET caller == stack[Len(stack) - 1]
         callers == SubSeq(stack, 1, Len(stack) - 1)
     IN  stack' = [callers EXCEPT ![Len(callers)] =
                     FinishField(caller, DictValue(Top.fields_parsed))]
  /\ UNCHANGED <<fields, hex_string, outcome, threads, previous>>

\* Line 106 in the top-level call.
ReturnTop ==
  /\ outcome.status = "running"
  /\ Len(stack) = 1
  /\ Top.pc = "loop"
  /\ Top.index > Len(Top.fields)
  /\ stack' = SetTop([Top EXCEPT !.pc = "done"])
  /\ outcome' = Returned(Top.fields_parsed)
  /\ UNCHANGED <<fields, hex_string, threads, previous>>

Next ==
  \/ RaiseOddLength
  \/ RaiseSchemaError
  \/ RaiseLengthMismatch
  \/ BeginLoop
  \/ ExtractContainer
  \/ ParseArray
  \/ ParseString
  \/ CallStruct
  \/ ParseNumeric
  \/ RaiseValueError
  \/ ReturnNested
  \/ ReturnTop

Spec == Init /\ [][Next]_vars

(***************************************************************************)
(* Several invocations.  Every invocation has its own locals (frames); the *)
(* schema object is the one thing the invocations may share, and no line   *)
(* of parse_struct_from_hex or check_struct assigns to it or to a global.  *)
(* The call of the variables above is one invocation; threads holds the    *)
(* invocations interleaved with it.                                        *)
(***************************************************************************)
Invocation(hex_string_arg) ==
  [hex_string |-> hex_string_arg,
   stack |-> <<NewFrame(fields, hex_string_arg)>>,
   outcome |-> Running]

\* The next step of the invocation c (lines 28-106): the step of the
\* actions above, taken on the frames of c.
Step(c) ==
  LET top == c.stack[Len(c.stack)]
      set(fr) == [c EXCEPT !.stack = [c.stack EXCEPT ![Len(c.stack)] = fr]]
      raise(msg) == [c EXCEPT !.outcome = Raised(msg)]
      kind == CurrentField(top).type.kind
      caller == c.stack[Len(c.stack) - 1]
      callers == SubSeq(c.stack, 1, Len(c.stack) - 1)
  IN  CASE top.pc = "check" ->
             IF InputCheck(top) = "ok" THEN set([top EXCEPT !.pc = "loop"])
             ELSE raise(InputCheck(top))
        [] top.pc = "loop" /\ top.index <= Len(top.fields) ->
             set(ExtractContainerStep(top))
        [] top.pc = "loop" /\ top.index > Len(top.fields) ->
             IF Len(c.stack) > 1
               THEN [c EXCEPT !.stack =
                       [callers EXCEPT ![Len(callers)] =
                          FinishField(caller, DictValue(top.fields_parsed))]]
               ELSE [c EXCEPT !.stack = <<[top EXCEPT !.pc = "done"]>>,
                              !.outcome = Returned(top.fields_parsed)]
        [] top.pc = "parse" /\ kind = "array" ->
             set(FinishField(top, HexValue(top.container_value)))
        [] top.pc = "parse" /\ kind = "string" ->
             set(FinishField(top,
                   TextValue(hex_string_to_char_string(top.container_value))))
        [] top.pc = "parse" /\ kind = "struct" ->
             [c EXCEPT !.stack =
                Append([c.stack EXCEPT ![Len(c.stack)] =
                          [top EXCEPT !.pc = "call"]],
                       NewFrame(CurrentField(top).type.sub,
                                top.container_value))]
        [] top.pc = "parse" /\ kind \in {"simple", "packed"} ->
             IF IntRaises(NumericContainer(top)) THEN raise("VALUE_ERROR")
             ELSE set(FinishField(
                        [top EXCEPT !.container_value = NumericContainer(top)],
                        NumericValue(top)))

\* OtherStep with one result mapping for all invocations: the entries an
\* invocation has stored so far are seen by the call of the variables.
OtherStepSharesMapping(t) ==
  /\ t \in 1..Len(threads)
  /\ threads[t].outcome.status = "running"
  /\ threads' = [threads EXCEPT ![t] = Step(@)]
  /\ stack' =
       IF outcome.status = "running"
         THEN [stack EXCEPT ![1].fields_parsed =
                 Step(threads[t]).stack[1].fields_parsed]
         ELSE stack
  /\ UNCHANGED <<fields, hex_string, outcome, previous>>

\* A step of an invocation on another thread.
OtherStep(t) ==
  /\ t \in 1..Len(threads)
  /\ threads[t].outcome.status = "running"
  /\ threads' = [threads EXCEPT ![t] = Step(@)]
  /\ UNCHANGED <<fields, hex_string, stack, outcome, previous>>

\* The inputs and schemas of the interleaved invocations.
SessionInputs ==
  {<< >>, <<"3">>, <<"3", "E">>, <<"3", "E", "E", "3">>,
   <<"E", "3", "3", "E">>}

SessionSchemas ==
  {Schema(<<Struct(Schema(<<Simple(TYPE_8_BITS)>>)), Array(TYPE_8_BITS)>>),
   Schema(<<Packed(5, TYPE_8_BITS, "none"), Packed(3, TYPE_8_BITS, "plus_one"),
            String(TYPE_8_BITS)>>),
   Schema(<<Packed(3, TYPE_8_BITS, "none")>>),
   Schema(<<Packed(5, TYPE_8_BITS, "none"), Packed(4, TYPE_8_BITS, "none")>>)}

\* Another thread whose invocation has ended makes its next call, on the
\* same schema and any input.
OtherCallNext(t) ==
  /\ t \in 1..Len(threads)
  /\ threads[t].outcome.status # "running"
  /\ \E h \in SessionInputs : threads' = [threads EXCEPT ![t] = Invocation(h)]
  /\ UNCHANGED <<fields, hex_string, stack, outcome, previous>>

\* CallAgain storing into the mapping the call before returned (a mapping
\* created once, not at line 29 of each call).
CallAgainKeepsMapping ==
  /\ outcome.status # "running"
  /\ previous = NoCall
  /\ previous' = outcome
  /\ stack' = <<[NewFrame(fields, hex_string) EXCEPT
                   !.fields_parsed = outcome.value]>>
  /\ outcome' = Running
  /\ UNCHANGED <<fields, hex_string, threads>>

\* The call that has ended is made again with the same schema and input;
\* lines 29-34 and 47 set its locals anew.
CallAgain ==
  /\ outcome.status # "running"
  /\ previous = NoCall
  /\ previous' = outcome
  /\ stack' = <<NewFrame(fields, hex_string)>>
  /\ outcome' = Running
  /\ UNCHANGED <<fields, hex_string, threads>>

MaxThreads == 1

InitCalls ==
  /\ \E f \in SessionSchemas, h \in SessionInputs :
       InitCall([fields |-> f, hex_string |-> h])
  /\ previous = NoCall
  /\ \E n \in 1..MaxThreads :
       \E hs \in [1..n -> SessionInputs] :
         threads = [t \in 1..n |-> Invocation(hs[t])]

NextCalls ==
  \/ Next
  \/ \E t \in 1..MaxThreads : OtherStep(t)
  \/ \E t \in 1..MaxThreads : OtherCallNext(t)
  \/ CallAgain

SpecCalls == InitCalls /\ [][NextCalls]_vars

\* Calls on schemas of every nesting depth up to MaxDepth and on the
\* schemas of SessionSchemas.
TerminationCalls ==
  DepthCalls
  \cup {[fields |-> f, hex_string |-> h] :
          f \in SessionSchemas, h \in SessionInputs}

InitTermination ==
  /\ threads = << >>
  /\ previous = NoCall
  /\ \E call \in TerminationCalls : InitCall(call)

\* The interpreter keeps executing a call that has not ended.
FairSpec == InitTermination /\ [][Next]_vars /\ WF_vars(Next)

(***************************************************************************)
(* parse_struct_from_hex as a function of its arguments: the value the     *)
(* call returns, or the exception it raises.                               *)
(***************************************************************************)
RECURSIVE parse_struct_from_hex(_, _)
RECURSIVE ParseLoop(_)

\* Lines 48-106 from the frame fr at the head of the loop.
ParseLoop(fr) ==
  IF fr.index > Len(fr.fields)
    THEN [ok |-> TRUE, error |-> "none", value |-> fr.fields_parsed]
  ELSE
    LET ex == ExtractContainerStep(fr)
        kind == CurrentField(fr).type.kind
        nested == parse_struct_from_hex(CurrentField(fr).type.sub,
                                        ex.container_value)
    IN  CASE kind = "array" ->
               ParseLoop(FinishField(ex, HexValue(ex.container_value)))
          [] kind = "string" ->
               ParseLoop(FinishField(ex,
                  TextValue(hex_string_to_char_string(ex.container_value))))
          [] kind = "struct" ->
               IF nested.ok
                 THEN ParseLoop(FinishField(ex, DictValue(nested.value)))
                 ELSE nested
          [] OTHER ->
               IF IntRaises(NumericContainer(ex))
                 THEN [ok |-> FALSE, error |-> "VALUE_ERROR", value |-> << >>]
                 ELSE ParseLoop(FinishField(
                        [ex EXCEPT !.container_value = NumericContainer(ex)],
                        NumericValue(ex)))

parse_struct_from_hex(fields_arg, hex_string_arg) ==
  LET fr == NewFrame(fields_arg, hex_string_arg)
  IN  IF InputCheck(fr) # "ok"
        THEN [ok |-> FALSE, error |-> InputCheck(fr), value |-> << >>]
        ELSE ParseLoop([fr EXCEPT !.pc = "loop"])

(***************************************************************************)
(* Properties.                                                             *)
(***************************************************************************)
Frames == {stack[k] : k \in 1..Len(stack)}

\* The preconditions of the decoder on (fields, hex_string): an even number
\* of digits, and as many bits as check_struct returns.
LengthMatches(f, h) ==
  /\ Len(h) % 2 = 0
  /\ 4 * Len(h) = check_struct(f).total_length_sum_bits

\* C1: for a schema that check_struct accepts, parse_struct_from_hex
\* succeeds if and only if the hex string has an even number of digits and
\* 4 * len(H) equals the length check_struct returns.
C1_SucceedsIffLengthMatches ==
  check_struct(fields).ok =>
    /\ outcome.status = "returned" => LengthMatches(fields, hex_string)
    /\ outcome.status = "raised" => ~LengthMatches(fields, hex_string)

\* Width and container width of a numeric field, as declared.
DeclaredWidth(type) == type.bits
DeclaredContainer(type) ==
  IF type.kind = "packed" THEN type.container ELSE type.bits

\* The runs of bit fields of schema f from field n on are filled exactly,
\* when `open` bits of a container of width `width` are already taken:
\* a field joins the open container only when it declares the same width,
\* never overflows it, and no container is left open at a span, at a
\* nested struct or at the end of the schema.
RECURSIVE RunsFilled(_, _, _, _)
RunsFilled(f, n, open, width) ==
  IF n > Len(f) THEN open = 0
  ELSE
    LET type == f[n].type
        taken == open + DeclaredWidth(type)
    IN  CASE type.kind = "packed" ->
               /\ open > 0 => type.container = width
               /\ taken <= type.container
               /\ RunsFilled(f, n + 1,
                             IF taken = type.container THEN 0 ELSE taken,
                             type.container)
          [] type.kind = "struct" ->
               /\ open = 0
               /\ RunsFilled(type.sub, 1, 0, 0)
               /\ RunsFilled(f, n + 1, 0, 0)
          [] OTHER ->
               /\ open = 0
               /\ RunsFilled(f, n + 1, 0, 0)

\* C2: in every schema check_struct accepts, each run of consecutive
\* Packed/Scalar fields sharing a container sums exactly to the container
\* width, the last run of the schema (top-level or nested) included.
C2_AcceptedRunsAreFilled ==
  \A fr \in Frames : check_struct(fr.fields).ok => RunsFilled(fr.fields, 1, 0, 0)

\* C3: at each call of extract_value_from_hex (a frame about to parse a
\* numeric field), start bit plus field width is at most the bit width of
\* the container text that was sliced from the input.
C3_ExtractWithinSlicedContainer ==
  \A fr \in Frames :
    (fr.pc = "parse" /\ CurrentField(fr).type.kind \in {"simple", "packed"})
      => fr.packed_field_offset + fr.packed_field_length
           <= 4 * Len(fr.container_value)

\* Field n of schema f declares another container width while a container
\* is open and not yet fully consumed.
ChangesOpenContainer(f, n) ==
  LET st == CheckLoop(f, n - 1)
      type == f[n].type
      declared == IF type.kind = "struct"
                    THEN check_struct(type.sub).total_length_sum_bits
                    ELSE DeclaredContainer(type)
  IN  /\ st.ok
      /\ st.packed_field_offset > 0
      /\ st.packed_field_offset < st.prev_container_length
      /\ declared # st.prev_container_length

\* C4: check_struct fails whenever, while a container is open and not fully
\* consumed, the next field declares a different container width, also when
\* the new field would fill the new container width exactly.
C4_ChangedContainerIsRejected ==
  \A fr \in Frames :
    (\E n \in 1..Len(fr.fields) : ChangesOpenContainer(fr.fields, n))
      => ~check_struct(fr.fields).ok

\* Frame fr has just stored the value of field JustParsed(fr).
HasJustParsed(fr) == fr.pc \in {"loop", "done"} /\ fr.index > 1
JustParsed(fr) == fr.index - 1

\* Bits of the open container taken by the fields before field n of f.
RECURSIVE BitsBefore(_, _)
BitsBefore(f, n) ==
  IF n = 1 THEN 0
  ELSE LET prev == f[n - 1].type
           taken == BitsBefore(f, n - 1) + DeclaredWidth(prev)
       IN  IF prev.kind \notin {"simple", "packed"} THEN 0
           ELSE IF taken = DeclaredContainer(prev) THEN 0
           ELSE taken

\* C5: packed fields take their bits LSB-first in declaration order: with V
\* the normalized numeric value of the container, a packed field of width w
\* that follows fields of total width s in its container decodes, before
\* its transform, to (V >> s) & (2^w - 1); Packed(5,8), Packed(3,8) over
\* "E3" yields 3 then 7.
C5_PackedFieldsAreLsbFirst ==
  /\ \A fr \in Frames :
       (HasJustParsed(fr) /\ fr.fields[JustParsed(fr)].type.kind = "packed")
         => LET n == JustParsed(fr)
                type == fr.fields[n].type
                V == IntOfHex(fr.container_value)
                raw == (V \div (2 ^ BitsBefore(fr.fields, n))) % (2 ^ type.bits)
            IN  fr.fields_parsed[n].value
                  = ApplyHandler(type.handler, IntValue(raw))
  /\ ( /\ fields = Schema(<<Packed(5, 8, "none"), Packed(3, 8, "none")>>)
       /\ hex_string = <<"E", "3">>
       /\ outcome.status = "returned" )
       => /\ outcome.value[1].value = IntValue(3)
          /\ outcome.value[2].value = IntValue(7)

C5_Witness ==
  /\ fields = Schema(<<Packed(5, 8, "none"), Packed(3, 8, "none")>>)
  /\ hex_string = <<"E", "3">>
  /\ outcome.status = "returned"
  /\ Len(outcome.value) = 2

\* The integer whose bytes, least significant first, are the bytes of the
\* hex text b in order.
RECURSIVE LittleEndianValue(_)
LittleEndianValue(b) ==
  IF Len(b) < 2 THEN 0
  ELSE 16 * HexDigitValue(b[1]) + HexDigitValue(b[2])
         + 256 * LittleEndianValue(SubSeq(b, 3, Len(b)))

\* The span of the input sliced for the current container of fr.
SlicedSpan(fr) ==
  PySlice(fr.hex_string, fr.container_start_char, fr.container_end_char)

\* C6: a scalar of N bytes b0, b1, ... in input order decodes to the sum of
\* b_i * 256^i; "f135" decodes to 0x35f1 and "11ff" to 0xff11.
C6_ScalarIsLittleEndian ==
  /\ \A fr \in Frames :
       (HasJustParsed(fr) /\ fr.fields[JustParsed(fr)].type.kind = "simple")
         => fr.fields_parsed[JustParsed(fr)].value
              = IntValue(LittleEndianValue(SlicedSpan(fr)))
  /\ (fields = Schema(<<Simple(16)>>) /\ outcome.status = "returned")
       => /\ hex_string = <<"f", "1", "3", "5">>
               => outcome.value[1].value = IntValue(13809)
          /\ hex_string = <<"1", "1", "f", "f">>
               => outcome.value[1].value = IntValue(65297)

C6_Witness ==
  /\ fields = Schema(<<Simple(32)>>)
  /\ hex_string = <<"1", "f", "f", "1", "1", "1", "1", "f">>
  /\ outcome.status = "returned"
  /\ outcome.value[1].value = IntValue(521269535)

\* The independent call for the struct field the frame fr is at or has
\* just stored: the nested schema on the span of the field.
IndependentCall(fr, n) ==
  LET N == fr.fields[n].type.sub
      K == fr.container_start_char
      len == check_struct(N).total_length_sum_bits \div 4
  IN  parse_struct_from_hex(N, PySlice(fr.hex_string, K, K + len))

\* C7: the value stored under a Struct field equals the result of calling
\* parse_struct_from_hex independently on the nested schema and the span
\* of the field; the recursive call fails exactly as the independent call.
C7_NestedEqualsIndependentCall ==
  \A fr \in Frames :
    /\ (HasJustParsed(fr) /\ fr.fields[JustParsed(fr)].type.kind = "struct")
         => LET n == JustParsed(fr)
                call == IndependentCall(fr, n)
            IN  /\ call.ok
                /\ fr.fields_parsed[n].value
                     = ApplyHandler(fr.fields[n].type.handler,
                                    DictValue(call.value))
    /\ (fr.pc = "call" /\ outcome.status = "raised")
         => LET call == IndependentCall(fr, fr.index)
            IN  ~call.ok /\ call.error = outcome.error

C7_Witness ==
  \E fr \in Frames :
    /\ HasJustParsed(fr)
    /\ fr.fields[JustParsed(fr)].type.kind = "struct"
    /\ fr.container_start_char > 0
    /\ Len(fr.fields_parsed[JustParsed(fr)].value.items) = 2

\* Width of the container that field n of f opens.
ContainerWidth(type) ==
  IF type.kind = "struct" THEN check_struct(type.sub).total_length_sum_bits
  ELSE DeclaredContainer(type)

\* Sum of the widths of the containers opened before field n of f.
RECURSIVE EarlierContainerBits(_, _)
EarlierContainerBits(f, n) ==
  IF n = 1 THEN 0
  ELSE EarlierContainerBits(f, n - 1)
         + (IF BitsBefore(f, n - 1) = 0
              THEN ContainerWidth(f[n - 1].type) ELSE 0)

\* C8: the decoder consumes the input as contiguous container-sized spans
\* in schema order: each span starts where the earlier containers end, has
\* the width of its container, lies inside the input, and after the last
\* field the cursor is at 4 * len(H) bits.
C8_SpansAreContiguous ==
  \A fr \in Frames :
    /\ (fr.pc \in {"parse", "call"} /\ fr.first_packed_field)
         => /\ 4 * fr.container_start_char
                 = EarlierContainerBits(fr.fields, fr.index)
            /\ 4 * (fr.container_end_char - fr.container_start_char)
                 = ContainerWidth(CurrentField(fr).type)
            /\ fr.container_end_char <= Len(fr.hex_string)
    /\ (fr.pc \in {"loop", "done"} /\ fr.index > Len(fr.fields))
         => fr.container_fields_offset = 4 * Len(fr.hex_string)

\* Frame fr has not sliced a container nor written an entry of its result.
NothingDecoded(fr) ==
  /\ fr.pc = "check"
  /\ fr.index = 1
  /\ fr.fields_parsed = << >>
  /\ fr.container_value = None
  /\ fr.container_fields_offset = 0

\* C9: when check_struct fails on the schema (at top level or in a nested
\* struct schema) the call fails as a whole before any field is decoded: no
\* container is sliced, no entry is written, and no result is returned.
C9_SchemaFailureDecodesNothing ==
  /\ \A fr \in Frames : ~check_struct(fr.fields).ok => NothingDecoded(fr)
  /\ ~check_struct(fields).ok
       => /\ outcome.status # "returned"
          /\ Len(stack) = 1
          /\ outcome.status = "raised"
               => outcome.error \in SchemaErrors \cup {"HEX_LENGTH_NOT_EVEN"}
          /\ outcome.status = "running"
               => InputCheck(Top) \in SchemaErrors \cup {"HEX_LENGTH_NOT_EVEN"}

C9_Witness ==
  /\ fields = Schema(<<Packed(5, 8, "none"), Packed(4, 8, "none")>>)
  /\ hex_string = <<"E", "3">>
  /\ outcome.status = "raised"
  /\ outcome.error = "OVERFLOW"
  /\ NothingDecoded(Top)

\* The input of frame fr breaks a precondition on its length.
BadLength(fr) ==
  \/ Len(fr.hex_string) % 2 # 0
  \/ /\ check_struct(fr.fields).ok
     /\ 4 * Len(fr.hex_string) # check_struct(fr.fields).total_length_sum_bits

\* C10: when len(H) is odd or 4 * len(H) differs from check_struct(S), the
\* call fails with the input-length error before any field is read: no
\* container has been sliced and the result has no entries.
C10_BadLengthFailsBeforeDecoding ==
  \A k \in 1..Len(stack) :
    BadLength(stack[k])
      => /\ NothingDecoded(stack[k])
         /\ k = Len(stack)
         /\ outcome.status # "returned"
         /\ outcome.status = "raised" => outcome.error \in InputErrors
         /\ outcome.status = "running"
              => InputCheck(stack[k]) \in InputErrors

C10_Witness ==
  /\ outcome.status = "raised"
  /\ outcome.error = "LENGTH_MISMATCH"
  /\ check_struct(fields).ok
  /\ Len(hex_string) = 2
  /\ NothingDecoded(Top)

\* The Scalar and Packed fields of the schema f.
NumericFields(f) ==
  {n \in 1..Len(f) : f[n].type.kind \in {"simple", "packed"}}

Overflows(f, n) ==
  LET type == f[n].type
      width == IF type.kind = "struct" THEN ContainerWidth(type)
               ELSE DeclaredWidth(type)
  IN  BitsBefore(f, n) + width > ContainerWidth(type)

\* C12: check_struct fails for every schema in which, at some field, the
\* accumulated packed offset of the open container plus the width of the
\* field exceeds the container width of the field.  Checked where each
\* call validates its schema (lines 39-40).
C12_OverflowIsRejected ==
  \A fr \in Frames :
    (fr.pc = "check"
       /\ \E n \in 1..Len(fr.fields) : Overflows(fr.fields, n))
      => ~check_struct(fr.fields).ok

C12_Witness ==
  /\ fields = Schema(<<Packed(5, 8, "none"), Packed(4, 8, "none")>>)
  /\ Overflows(fields, 2)
  /\ Len(hex_string) = 4
  /\ outcome = Raised("OVERFLOW")

\* Schema f, or a struct schema nested in it, has a Scalar width, a Packed
\* container width or an Array or String width that is no multiple of 8.
RECURSIVE ContainsPartialByte(_)
ContainsPartialByte(f) ==
  \E n \in 1..Len(f) :
    IF f[n].type.kind = "struct" THEN ContainsPartialByte(f[n].type.sub)
    ELSE DeclaredContainer(f[n].type) % 8 # 0

\* C13: check_struct fails for every schema containing a Scalar width, a
\* Packed container width or an Array or String width that is not a
\* multiple of 8; the total width computed for an accepted nested Struct
\* is a multiple of 8.  Checked where each call validates its schema
\* (lines 39-40).
C13_PartialBytesAreRejected ==
  \A fr \in Frames :
    fr.pc = "check"
      => /\ ContainsPartialByte(fr.fields) => ~check_struct(fr.fields).ok
         /\ \A n \in 1..Len(fr.fields) :
              (fr.fields[n].type.kind = "struct"
                 /\ check_struct(fr.fields[n].type.sub).ok)
                => check_struct(fr.fields[n].type.sub).total_length_sum_bits
                     % 8 = 0

C13_Witness ==
  /\ fields = Schema(<<Simple(24), Struct(Schema(<<Simple(12)>>))>>)
  /\ ContainsPartialByte(fields)
  /\ Len(hex_string) = 4
  /\ outcome = Raised("NOT_MULTIPLE_OF_8")

\* The raw integer of the numeric field fr has just stored: the bits
\* extracted from the normalized container.
RawInteger(fr) ==
  extract_value_from_hex(fr.container_value,
                         fr.packed_field_offset - fr.packed_field_length,
                         fr.packed_field_length)

\* The calls of handlers that fr made for the field named name.
HandlerCallsFor(fr, name) ==
  SelectSeq(fr.handler_calls, LAMBDA c : c.name = name)

\* The numeric field fr has just stored holds its raw integer, or, when
\* the field carries a transform, the transform of its raw integer, and
\* the transform was called once, on the raw integer.
StoresTransformOfRaw(fr) ==
  LET n == JustParsed(fr)
      type == fr.fields[n].type
      raw == IntValue(RawInteger(fr))
      calls == HandlerCallsFor(fr, fr.fields[n].name)
  IN  IF type.kind = "packed" /\ type.handler # "none"
        THEN /\ fr.fields_parsed[n].value = ApplyHandler(type.handler, raw)
             /\ calls = <<[name |-> fr.fields[n].name, argument |-> raw]>>
        ELSE /\ fr.fields_parsed[n].value = raw
             /\ calls = << >>

\* The kind of value decoded for a field of each kind.
DecodedType(type) ==
  CASE type.kind = "array" -> "hex"
    [] type.kind = "string" -> "text"
    [] type.kind = "struct" -> "dict"
    [] OTHER -> "int"

\* C14 as stated: when a field carries a transform, the stored value is
\* the transform applied exactly once to the raw extracted integer of the
\* field; the transform is never given anything but a raw extracted
\* integer (never a hex string, decoded text or nested mapping); fields
\* without a transform store the raw integer unchanged; Packed(12,16,+1)
\* with raw 0x671 stores 0x672.
C14_TransformGetsRawInteger ==
  /\ \A fr \in Frames :
       /\ \A k \in 1..Len(fr.handler_calls) :
            fr.handler_calls[k].argument.type = "int"
       /\ (HasJustParsed(fr)
             /\ fr.fields[JustParsed(fr)].type.kind \in {"simple", "packed"})
            => StoresTransformOfRaw(fr)
  /\ (fields = TestFields /\ hex_string = TestHexString
        /\ outcome.status = "returned")
       => outcome.value[4].value = IntValue(1650)

\* C14 amended: a Packed field with a transform stores the transform
\* applied exactly once to its raw extracted integer, and Scalar fields and
\* Packed fields without a transform store the raw integer unchanged; a
\* callable given as third element of an Array, String or Struct tuple is
\* called once too, on the hex string, the decoded text or the nested
\* mapping, and its result is stored.
C14_TransformGetsDecodedValue ==
  /\ \A fr \in Frames :
       /\ \A k \in 1..Len(fr.handler_calls) :
            \E n \in 1..Len(fr.fields_parsed) :
              LET type == fr.fields[n].type
                  call == fr.handler_calls[k]
              IN  /\ fr.fields[n].name = call.name
                  /\ HandlerCallsFor(fr, call.name) = <<call>>
                  /\ call.argument.type = DecodedType(type)
                  /\ fr.fields_parsed[n].value
                       = ApplyHandler(type.handler, call.argument)
       /\ (HasJustParsed(fr)
             /\ fr.fields[JustParsed(fr)].type.kind \in {"simple", "packed"})
            => StoresTransformOfRaw(fr)
  /\ (fields = TestFields /\ hex_string = TestHexString
        /\ outcome.status = "returned")
       => outcome.value[4].value = IntValue(1650)

C14_Witness ==
  /\ fields = TestFields
  /\ Top.index = 5
  /\ Top.pc = "loop"
  /\ Top.fields_parsed[4].value = IntValue(1650)
  /\ HandlerCallsFor(Top, "field4")
       = <<[name |-> "field4", argument |-> IntValue(1649)]>>

\* The span of field n of the schema of fr in the input: the digits from
\* the end of the containers before the field, as many as the container
\* of the field is wide.
FieldSpan(fr, n) ==
  LET start == EarlierContainerBits(fr.fields, n) \div 4
  IN  PySlice(fr.hex_string, start,
              start + ContainerWidth(fr.fields[n].type) \div 4)

\* Frame fr has just stored a field of the given kind that has no handler.
HasJustParsedPlain(fr, kind) ==
  /\ HasJustParsed(fr)
  /\ fr.fields[JustParsed(fr)].type.kind = kind
  /\ fr.fields[JustParsed(fr)].type.handler = "none"

\* C15: an Array(total_bits) field stores exactly the raw hex substring of
\* its span: total_bits / 4 characters taken from the input at the offset
\* of the field, character for character, neither reversed nor parsed.
C15_ArrayIsRawSpan ==
  \A fr \in Frames :
    HasJustParsedPlain(fr, "array")
      => LET n == JustParsed(fr)
             stored == fr.fields_parsed[n].value
         IN  /\ stored.type = "hex"
             /\ Len(stored.hex) = fr.fields[n].type.bits \div 4
             /\ stored.hex = FieldSpan(fr, n)

\* The character codes of the bytes of the hex text b, in order.
RECURSIVE ByteCodes(_)
ByteCodes(b) ==
  IF Len(b) < 2 THEN << >>
  ELSE <<16 * HexDigitValue(b[1]) + HexDigitValue(b[2])>>
         \o ByteCodes(SubSeq(b, 3, Len(b)))

\* C16: a String(total_bits) field of n = total_bits / 8 bytes decodes to
\* a text of exactly n characters whose i-th character has the code of the
\* i-th byte of its span in input order; "55727567756179" decodes to
\* "Uruguay".
C16_StringIsByteCodes ==
  /\ \A fr \in Frames :
       HasJustParsedPlain(fr, "string")
         => LET n == JustParsed(fr)
                stored == fr.fields_parsed[n].value
            IN  /\ stored.type = "text"
                /\ Len(stored.text) = fr.fields[n].type.bits \div 8
                /\ stored.text = ByteCodes(FieldSpan(fr, n))
  /\ (fields = TestFields /\ hex_string = TestHexString
        /\ outcome.status = "returned")
       => outcome.value[10].value.text = <<85, 114, 117, 103, 117, 97, 121>>

\* The mapping items has exactly the field names of schema f, each once
\* and in the order of f, and so has the mapping stored for every struct
\* field of f (a struct tuple without handler), recursively.
RECURSIVE SameNames(_, _)
SameNames(items, f) ==
  /\ Len(items) = Len(f)
  /\ \A k \in 1..Len(f) :
       /\ items[k].name = f[k].name
       /\ \A j \in 1..Len(f) : f[j].name = f[k].name => j = k
       /\ (f[k].type.kind = "struct" /\ f[k].type.handler = "none")
            => /\ items[k].value.type = "dict"
               /\ SameNames(items[k].value.items, f[k].type.sub)

\* C17: on success the result has exactly the field names of the schema,
\* each exactly once, in schema declaration order, and the value of every
\* Struct field is a mapping with exactly the names of the nested schema
\* in the nested schema's order.
C17_ResultHasSchemaNames ==
  /\ outcome.status = "returned" => SameNames(outcome.value, fields)
  /\ \A fr \in Frames :
       (fr.pc \in {"loop", "done"} /\ fr.index > Len(fr.fields))
         => SameNames(fr.fields_parsed, fr.fields)

C17_Witness ==
  /\ fields = TestFields
  /\ outcome.status = "returned"
  /\ Len(outcome.value) = 10
  /\ outcome.value[7].name = "field7"
  /\ Len(outcome.value[7].value.items) = 4
  /\ outcome.value[7].value.items[4].name = "field4"

\* The hex text out has the bytes of the hex text h in reverse order, the
\* two digits of each byte in their order.
ReversesBytes(h, out) ==
  LET N == Len(h) \div 2
  IN  /\ Len(out) = Len(h)
      /\ \A i \in 0..(N - 1) :
           /\ out[2 * (N - 1 - i) + 1] = h[2 * i + 1]
           /\ out[2 * (N - 1 - i) + 2] = h[2 * i + 2]

\* C18: convert_endianess reverses the byte order, not the nibble order:
\* for every hex string of N bytes the output has the same length, its
\* byte N-1-i is byte i of the input, and the two digits of each byte keep
\* their order; for N = 1 the output is the input.  Checked on every
\* container the decoder normalizes, on the input of every call, and, in
\* the run of the repository's test call, on the three strings of
\* test_endian_converter.
C18_ConvertReversesBytes ==
  /\ \A fr \in Frames :
       (HasJustParsed(fr)
          /\ fr.fields[JustParsed(fr)].type.kind \in {"simple", "packed"})
         => /\ ReversesBytes(SlicedSpan(fr), fr.container_value)
            /\ Len(SlicedSpan(fr)) = 2 => fr.container_value = SlicedSpan(fr)
  /\ (Top.pc = "check" /\ Len(hex_string) % 2 = 0)
       => ReversesBytes(hex_string, convert_endianess(hex_string))
  /\ fields = TestFields
       => /\ convert_endianess(<<"0", "f", "5", "1", "2", "3", "3", "2">>)
               = <<"3", "2", "2", "3", "5", "1", "0", "f">>
          /\ convert_endianess(
               <<"1", "2", "3", "4", "5", "a", "b", "c", "d", "e", "f", "f">>)
               = <<"f", "f", "d", "e", "b", "c", "5", "a", "3", "4", "1", "2">>
          /\ convert_endianess(<<"f", "1", "3", "5">>) = <<"3", "5", "f", "1">>

C18_Witness ==
  \E fr \in Frames :
    /\ HasJustParsed(fr)
    /\ fr.fields[JustParsed(fr)].type = Simple(TYPE_32_BITS)
    /\ SlicedSpan(fr) = <<"1", "f", "f", "1", "1", "1", "1", "f">>
    /\ fr.container_value = <<"1", "f", "1", "1", "f", "1", "1", "f">>

\* The integer that line 95 extracted for the numeric field fr has just
\* stored: the argument of the handler when one ran, else the stored
\* value.
ExtractedInteger(fr) ==
  LET n == JustParsed(fr)
  IN  IF HandlerRuns(fr.fields[n].type)
        THEN fr.handler_calls[Len(fr.handler_calls)].argument.int
        ELSE fr.fields_parsed[n].value.int

\* (int(h, 16) >> start_bit) & ((1 << length_bits) - 1) in arithmetic.
\* The values of the model are below 2^31, so a mask of 31 bits or more
\* keeps them whole.
ShiftAndMask(h, start_bit, length_bits) ==
  LET shifted == IntOfHex(h) \div (2 ^ start_bit)
  IN  IF length_bits >= 31 THEN shifted ELSE shifted % (2 ^ length_bits)

\* C19: extract_value_from_hex(h, start_bit, length_bits) is
\* (int(h, 16) >> start_bit) & ((1 << length_bits) - 1).  Checked on every
\* call the decoder makes (h the normalized container, start_bit the bit
\* cursor, length_bits the width of the field) and, in the run of the
\* repository's test call, on the three calls of test_hex_extractor.
C19_ExtractIsShiftAndMask ==
  /\ \A fr \in Frames :
       (HasJustParsed(fr)
          /\ fr.fields[JustParsed(fr)].type.kind \in {"simple", "packed"})
         => ExtractedInteger(fr)
              = ShiftAndMask(fr.container_value,
                             fr.packed_field_offset - fr.packed_field_length,
                             fr.packed_field_length)
  /\ fields = TestFields
       => /\ extract_value_from_hex(<<"0", "5", "5", "2">>, 7, 3) = 2
          /\ extract_value_from_hex(<<"9", "f", "f", "2">>, 8, 8) = 159
          /\ extract_value_from_hex(
               <<"0", "f", "5", "2", "1", "2", "3", "6">>, 12, 16) = 62753

C19_Witness ==
  /\ fields = TestFields
  /\ Top.pc = "loop"
  /\ Top.index = 6
  /\ Top.container_value = <<"5", "6", "7", "1">>
  /\ Top.packed_field_offset = 16
  /\ Top.packed_field_length = 4
  /\ ExtractedInteger(Top) = 5

\* Field n of schema f closes its container: with it the bits taken reach
\* the width of the container.  A Scalar, an Array, a String and a Struct
\* are containers of their own width.
ClosesContainer(f, n) ==
  LET type == f[n].type
      width == IF type.kind = "packed" THEN DeclaredWidth(type)
               ELSE ContainerWidth(type)
  IN  BitsBefore(f, n) + width = ContainerWidth(type)

\* Sum of the widths of the containers closed by the first n fields of f:
\* the Scalar widths, the Packed container widths once per filled
\* container, the Array and String widths and, for a Struct, the value
\* check_struct returns for the nested schema.
RECURSIVE ClosedContainerBits(_, _)
ClosedContainerBits(f, n) ==
  IF n = 0 THEN 0
  ELSE ClosedContainerBits(f, n - 1)
         + (IF ClosesContainer(f, n) THEN ContainerWidth(f[n].type) ELSE 0)

\* C20: when check_struct accepts a schema, the value it returns is the
\* sum of the widths of all fully closed containers of the schema in
\* order: each Scalar width, each Packed container width once per filled
\* container, each Array or String width, and for each Struct field the
\* value check_struct returns for its nested schema.  Checked where each
\* call validates its schema (lines 39-40).
C20_TotalIsSumOfClosedContainers ==
  \A fr \in Frames :
    (fr.pc = "check" /\ check_struct(fr.fields).ok)
      => check_struct(fr.fields).total_length_sum_bits
           = ClosedContainerBits(fr.fields, Len(fr.fields))

C20_Witness ==
  /\ fields = TestFields
  /\ check_struct(fields).ok
  /\ check_struct(fields).total_length_sum_bits = 344
  /\ ClosedContainerBits(fields, 5) = 32
  /\ Top.pc = "loop"
  /\ Top.index = 1

\* The invocation of the variables fields, hex_string, stack and outcome.
MainCall == [hex_string |-> hex_string, stack |-> stack, outcome |-> outcome]

\* The invocation x is in a state that the invocation c passes through
\* when it runs alone, step after step, until it ends.
RECURSIVE OnRunAlone(_, _)
OnRunAlone(c, x) ==
  IF c = x THEN TRUE
  ELSE IF c.outcome.status # "running" THEN FALSE
  ELSE OnRunAlone(Step(c), x)

\* The invocation c, when it has ended, ended as the call alone does:
\* with the same result or the same failure.
EndsAsAlone(c) ==
  LET alone == parse_struct_from_hex(fields, c.hex_string)
  IN  c.outcome.status # "running"
        => c.outcome = IF alone.ok THEN Returned(alone.value)
                       ELSE Raised(alone.error)

\* C21: invocations of parse_struct_from_hex whose steps are interleaved
\* arbitrarily, on the same schema object, each return the same result or
\* the same failure as when run alone, and each is at every moment in a
\* state of its run alone: no step of one invocation reads or writes state
\* written by another.
C21_InterleavedCallsRunAsAlone ==
  /\ EndsAsAlone(MainCall)
  /\ OnRunAlone(Invocation(hex_string), MainCall)
  /\ \A t \in 1..Len(threads) :
       /\ EndsAsAlone(threads[t])
       /\ OnRunAlone(Invocation(threads[t].hex_string), threads[t])

C21_Witness ==
  /\ Len(threads) = 1
  /\ hex_string = <<"3", "E", "E", "3">>
  /\ threads[1].hex_string = <<"E", "3", "3", "E">>
  /\ outcome.status = "returned"
  /\ threads[1].outcome.status = "returned"
  /\ Len(outcome.value) = 2
  /\ outcome.value # threads[1].outcome.value

\* C22: an invocation leaves the schema and the input unchanged and keeps
\* no state between calls: every frame still holds the schema and the
\* input it was called with, and the call made again with the same schema
\* and input, after any calls on other threads, returns an equal result in
\* a mapping that it filled from empty.
C22_RepeatedCallReturnsTheSame ==
  /\ stack[1].fields = fields
  /\ stack[1].hex_string = hex_string
  /\ \A k \in 2..Len(stack) :
       stack[k].fields = CurrentField(stack[k - 1]).type.sub
  /\ previous # NoCall
       => /\ outcome.status # "running" => outcome = previous
          /\ Len(Top.fields_parsed) <= Len(Top.fields)
          /\ (outcome.status = "running" /\ Top.pc = "check" /\ Len(stack) = 1)
               => Top.fields_parsed = << >>

C22_Witness ==
  /\ previous.status = "returned"
  /\ Len(previous.value) = 3
  /\ outcome = previous
  /\ threads[1].outcome.status = "returned"

\* Field n of schema f is a struct whose nested schema check_struct
\* rejects.
MalformedStruct(f, n) ==
  f[n].type.kind = "struct" /\ ~check_struct(f[n].type.sub).ok

\* C23 as stated: when the nested schema of a Struct field is malformed,
\* check_struct on the outer schema fails with the nested schema's error,
\* and the reported error identifies the outer Struct field's name as a
\* prefix of the failing nested field.  Checked where each call validates
\* its schema (lines 39-40).
C23_NestedErrorHasOuterName ==
  \A fr \in Frames :
    fr.pc = "check"
      => \A n \in 1..Len(fr.fields) :
           MalformedStruct(fr.fields, n)
             => /\ ~check_struct(fr.fields).ok
                /\ check_struct(fr.fields).error
                     = check_struct(fr.fields[n].type.sub).error
                /\ RaisedField(fr.fields)
                     = <<fr.fields[n].name>>
                         \o RaisedField(fr.fields[n].type.sub)

\* C23 amended: when the nested schema of a Struct field is malformed,
\* check_struct on the outer schema fails; when no earlier field of the
\* outer schema fails first, it fails with the nested schema's error, and
\* the message is the nested one unchanged: it names the failing nested
\* field only, without the name of the outer Struct field.
C23_NestedErrorIsUnchanged ==
  \A fr \in Frames :
    fr.pc = "check"
      => \A n \in 1..Len(fr.fields) :
           MalformedStruct(fr.fields, n)
             => /\ ~check_struct(fr.fields).ok
                /\ CheckLoop(fr.fields, n - 1).ok
                     => /\ check_struct(fr.fields).error
                             = check_struct(fr.fields[n].type.sub).error
                        /\ RaisedField(fr.fields)
                             = RaisedField(fr.fields[n].type.sub)
                        /\ Len(RaisedField(fr.fields)) = 1

C23_Witness ==
  /\ fields = Schema(<<Struct(Schema(<<Packed(5, 8, "none"),
                                       Packed(5, 8, "none")>>))>>)
  /\ Len(hex_string) = 2
  /\ MalformedStruct(fields, 1)
  /\ outcome = Raised("OVERFLOW")
  /\ RaisedField(fields) = <<"field2">>

\* Nesting depth of the schema f: 0 without struct fields.
RECURSIVE Depth(_)
Depth(f) ==
  LET subs == {n \in 1..Len(f) : f[n].type.kind = "struct"}
      depths == {Depth(f[n].type.sub) : n \in subs}
  IN  IF subs = {} THEN 0
      ELSE 1 + CHOOSE d \in depths : \A e \in depths : e <= d

\* C24: for every finite schema of nesting depth d, the call terminates
\* with a result or an error on every input string, and the depth of its
\* recursion (the calls inside the top-level call) is at most d, whatever
\* the payload.
C24_TerminatesWithinSchemaDepth ==
  /\ [](Len(stack) - 1 <= Depth(fields))
  /\ <>(outcome.status # "running")

C24_Witness ==
  /\ fields = Nest(MaxDepth)
  /\ Len(stack) - 1 = MaxDepth
  /\ outcome.status = "running"
  /\ Top.fields_parsed # << >>

\* The hex text h with its letters in the case of the digits to.
InCase(h, to) ==
  [i \in 1..Len(h) |->
     IF \E k \in 1..16 : h[i] \in {LowerDigits[k], UpperDigits[k]}
       THEN to[CHOOSE k \in 1..16 : h[i] \in {LowerDigits[k], UpperDigits[k]}]
       ELSE h[i]]

\* The items v and w decoded for the schema f hold the same value for every
\* scalar, packed and string field, at every level of nesting.
RECURSIVE SameDecoded(_, _, _)
SameDecoded(f, v, w) ==
  /\ Len(v) = Len(f)
  /\ Len(w) = Len(f)
  /\ \A n \in 1..Len(f) :
       /\ v[n].name = w[n].name
       /\ CASE f[n].type.kind = "array" -> TRUE
            [] f[n].type.kind = "struct" /\ ~HandlerRuns(f[n].type) ->
                 SameDecoded(f[n].type.sub, v[n].value.items, w[n].value.items)
            [] OTHER -> v[n].value = w[n].value

\* The call has ended as the call on the input h ends, up to the raw text
\* of arrays.
EndsAsOn(h) ==
  LET other == parse_struct_from_hex(fields, h)
  IN  /\ (outcome.status = "returned") = other.ok
      /\ outcome.error = other.error
      /\ other.ok => SameDecoded(fields, outcome.value, other.value)

\* C25: decoding does not depend on the case of the hex digits: the call
\* on H ends as the calls on H in upper case and on H in lower case end,
\* with equal values for every scalar, packed and string field.
C25_DecodingIgnoresCase ==
  outcome.status # "running"
    => /\ EndsAsOn(InCase(hex_string, UpperDigits))
       /\ EndsAsOn(InCase(hex_string, LowerDigits))

C25_Witness ==
  /\ outcome.status = "returned"
  /\ InCase(hex_string, UpperDigits) # hex_string
  /\ InCase(hex_string, LowerDigits) # hex_string
  /\ \E n \in 1..Len(fields) :
       /\ fields[n].type.kind = "packed"
       /\ outcome.value[n].value.int > 0
  /\ \E n \in 1..Len(fields) : fields[n].type.kind = "string"

\* The step stores a numeric field in the frame at the top of the stack.
StoresNumericField ==
  /\ Top.pc = "parse"
  /\ CurrentField(Top).type.kind \in {"simple", "packed"}
  /\ Len(stack') = Len(stack)
  /\ Top'.index = Top.index + 1

\* At a step that stores a numeric field: the text of the container is
\* raw when the field is the first of its container and is left as it is
\* when the field is a later one; after the step it is the raw text
\* reversed once, and the field is extracted from it.
NormalizedOnce ==
  LET raw == SlicedSpan(Top)
  IN  /\ Top.first_packed_field => Top.container_value = raw
      /\ ~Top.first_packed_field => Top'.container_value = Top.container_value
      /\ Top'.container_value = convert_endianess(raw)
      /\ SlicedSpan(Top') = raw
      /\ ExtractedInteger(Top')
           = extract_value_from_hex(Top'.container_value,
                                    Top.packed_field_offset,
                                    Top.packed_field_length)

\* C26: the byte order of a numeric container is normalized exactly once,
\* at the first field of the container: every later packed field of the
\* container is extracted from the same, already normalized, text, which
\* is never reversed a second time.
C26_ContainerNormalizedOnce ==
  [][StoresNumericField => NormalizedOnce]_vars

\* The second bit field of a container of three bytes has been stored, and
\* the text of the container is not its own reversal.
C26_Witness ==
  /\ Top.pc = "loop"
  /\ Top.index = 3
  /\ Top.fields[1].type = Packed(20, 3 * TYPE_8_BITS, "none")
  /\ Top.fields[2].type = Packed(4, 3 * TYPE_8_BITS, "none")
  /\ Top.container_value = convert_endianess(SlicedSpan(Top))
  /\ Top.container_value # SlicedSpan(Top)

\* The raw integer of field n of fr: the argument of its handler when one
\* ran, else the stored value.
RawOf(fr, n) ==
  IF HandlerRuns(fr.fields[n].type)
    THEN HandlerCallsFor(fr, fr.fields[n].name)[1].argument.int
    ELSE fr.fields_parsed[n].value.int

\* The fields of fr up to field n that take the first end bits of one
\* container, recombined: each raw value shifted left by the widths of
\* the fields before it in the container.
RECURSIVE Recombined(_, _, _)
Recombined(fr, n, end) ==
  IF n = 0 \/ end <= 0 THEN 0
  ELSE LET width == PackedFieldLength(fr.fields[n].type)
       IN  RawOf(fr, n) * 2 ^ (end - width)
             + Recombined(fr, n - 1, end - width)

\* The numeric field fr has just stored fills its container.
HasJustClosedContainer(fr) ==
  /\ HasJustParsed(fr)
  /\ fr.fields[JustParsed(fr)].type.kind \in {"simple", "packed"}
  /\ fr.first_packed_field

\* C27: the packed fields of a container partition its bits: when the
\* last field of a numeric container has been stored, the raw values of
\* the fields of the container, each shifted left by the sum of the widths
\* of the earlier fields, add up to the little-endian integer value of the
\* container; no bit is dropped and none is read by two fields.
C27_PackedFieldsPartitionContainer ==
  \A fr \in Frames :
    HasJustClosedContainer(fr)
      => Recombined(fr, JustParsed(fr), fr.packed_field_offset)
           = LittleEndianValue(SlicedSpan(fr))

\* The schema f is S1 followed by S2 and the input h is H1 followed by H2,
\* with S1 and S2 accepted and H1 of the length of S1.
SplitAt(f, h, k) ==
  LET S1 == SubSeq(f, 1, k)
      S2 == SubSeq(f, k + 1, Len(f))
      chars == check_struct(S1).total_length_sum_bits \div 4
  IN  [S1 |-> S1, S2 |-> S2,
       H1 |-> SubSeq(h, 1, Min(chars, Len(h))),
       H2 |-> SubSeq(h, Min(chars, Len(h)) + 1, Len(h))]

\* Validation and decoding of S1 followed by S2 are those of S1 and of S2
\* put together.
Composes(f, h, k) ==
  LET p == SplitAt(f, h, k)
      r1 == parse_struct_from_hex(p.S1, p.H1)
      r2 == parse_struct_from_hex(p.S2, p.H2)
      r == parse_struct_from_hex(f, h)
  IN  (check_struct(p.S1).ok /\ check_struct(p.S2).ok)
        => /\ check_struct(f).ok
           /\ check_struct(f).total_length_sum_bits
                = check_struct(p.S1).total_length_sum_bits
                    + check_struct(p.S2).total_length_sum_bits
           /\ (r1.ok /\ r2.ok) => (r.ok /\ r.value = r1.value \o r2.value)

\* C28: validation and decoding compose over concatenation: for accepted
\* schemas S1 and S2 with disjoint field names, check_struct(S1 ++ S2) is
\* check_struct(S1) + check_struct(S2), and decoding S1 ++ S2 over H1 ++ H2
\* gives the result of S1 over H1 followed by the result of S2 over H2.
\* Checked where the call validates its schema, on every split of it.
C28_ComposesOverConcatenation ==
  (Len(stack) = 1 /\ Top.pc = "check")
    => \A k \in 0..Len(fields) : Composes(fields, hex_string, k)

\* C29: encoding and decoding of scalars are inverse: for k in {1, 2, 4}
\* and 0 <= n < 2^(8k), the call on one Scalar(8k) over
\* to_string_little_endian(n, k) returns n; and to_word_little_endian(n)
\* is to_string_little_endian(n, 2) for every n >= 0.
C29_ScalarRoundTrip ==
  \A k \in {1, 2, 4} :
    (Len(fields) = 1 /\ fields = Schema(<<Simple(k * TYPE_8_BITS)>>))
      => /\ outcome.status # "running"
              => \A n \in RoundTripNumbers(k) :
                   hex_string = to_string_little_endian(n, k)
                     => outcome = Returned(<<[name |-> fields[1].name,
                                              value |-> IntValue(n)]>>)
         /\ (k = 2 /\ Top.pc = "check")
              => \A n \in RoundTripNumbers(2) \cup RoundTripNumbers(4) :
                   to_word_little_endian(n) = to_string_little_endian(n, 2)

C29_Witness ==
  /\ fields = Schema(<<Simple(4 * TYPE_8_BITS)>>)
  /\ hex_string = to_string_little_endian(2141913098, 4)
  /\ hex_string = <<"0", "A", "0", "0", "A", "B", "7", "F">>
  /\ outcome.status = "returned"
  /\ outcome.value[1].value.int = 2141913098

\* Converting the hex text h twice gives h back, and converting it keeps
\* its length.
IsInvolutionOn(h) ==
  /\ convert_endianess(convert_endianess(h)) = h
  /\ Len(convert_endianess(h)) = Len(h)

\* C30: convert_endianess is an involution on hex strings of even length,
\* the empty string included, and its output has the length of its input.
\* Checked on the input of every call, on the text of every container
\* sliced from it, and on the strings of test_endian_converter.
C30_ConvertIsInvolution ==
  /\ (Top.pc = "check" /\ Len(hex_string) % 2 = 0)
       => IsInvolutionOn(hex_string)
  /\ \A fr \in Frames :
       (fr.pc = "parse" /\ Len(fr.container_value) % 2 = 0)
         => IsInvolutionOn(fr.container_value)
  /\ (fields = TestFields /\ Top.pc = "check")
       => /\ IsInvolutionOn(<<"0", "f", "5", "1", "2", "3", "3", "2">>)
          /\ IsInvolutionOn(
               <<"1", "2", "3", "4", "5", "a", "b", "c", "d", "e", "f", "f">>)
          /\ IsInvolutionOn(<<"f", "1", "3", "5">>)
          /\ IsInvolutionOn(<< >>)

C30_Witness ==
  /\ HasJustParsed(Top)
  /\ Top.fields[JustParsed(Top)].type = Simple(3 * TYPE_8_BITS)
  /\ SlicedSpan(Top) = <<"3", "3", "3", "E", "E", "E">>
  /\ Top.container_value = <<"E", "E", "3", "E", "3", "3">>
  /\ convert_endianess(Top.container_value) = SlicedSpan(Top)
  /\ Len(Top.container_value) = Len(SlicedSpan(Top))

====
